---- MODULE Spec2Model ----
(***************************************************************************)
(* A model of api/factories/file_factory.py: the type classifier, the      *)
(* three file builders behind build_from_mapping, the upload-policy        *)
(* validator, the batch builder and the batched StorageKeyLoader.          *)
(*                                                                         *)
(* Python strings whose contents the code inspects (extensions, mime       *)
(* types, file names, storage keys) are sequences of one-character         *)
(* strings, so that lstrip, split, the "in" substring test and "+" are     *)
(* computed as the code computes them.  Identifiers, tenants and enum      *)
(* values, which the code only compares for equality, are atomic strings.  *)
(***************************************************************************)
EXTENDS Integers, Sequences, FiniteSets, TLC

VARIABLES uploadFiles, toolFiles, files, last

vars == <<uploadFiles, toolFiles, files, last>>

(***************************************************************************)
(* Bounds of the explored inputs.                                          *)
(***************************************************************************)
\* longest descriptor list handed to build_from_mappings
MaxBatch == 3
\* longest File list the caller holds when it calls load_storage_keys
MaxResolve == 2
\* largest count limit (number_limits) of the explored configurations
MaxLimit == 2

(***************************************************************************)
(* String literals.                                                        *)
(***************************************************************************)
Empty == << >>
Dot == <<".">>
\* Python's None where a character string is expected
NoneStr == <<"<None>">>
\* a mapping key that is absent, or a field that is None
NoValue == "<absent>"

S_png == <<"p", "n", "g">>
S_jpg == <<"j", "p", "g">>
S_mp4 == <<"m", "p", "4">>
S_mp3 == <<"m", "p", "3">>
S_pdf == <<"p", "d", "f">>
S_csv == <<"c", "s", "v">>
S_zip == <<"z", "i", "p">>
S_dat == <<"d", "a", "t">>
S_bin == <<"b", "i", "n">>

M_image_png == <<"i", "m", "a", "g", "e", "/", "p", "n", "g">>
M_video_mp4 == <<"v", "i", "d", "e", "o", "/", "m", "p", "4">>
M_audio_mpeg == <<"a", "u", "d", "i", "o", "/", "m", "p", "e", "g">>
M_text_plain == <<"t", "e", "x", "t", "/", "p", "l", "a", "i", "n">>
M_text_csv == <<"t", "e", "x", "t", "/", "c", "s", "v">>
M_app_pdf == <<"a", "p", "p", "l", "i", "c", "a", "t", "i", "o", "n", "/", "p", "d", "f">>
M_app_zip == <<"a", "p", "p", "l", "i", "c", "a", "t", "i", "o", "n", "/", "z", "i", "p">>
\* two synthetic mime types holding two keywords each, for the order of the tests
M_text_x_image == <<"t", "e", "x", "t", "/", "x", "-", "i", "m", "a", "g", "e">>
M_audio_x_video == <<"a", "u", "d", "i", "o", "/", "x", "-", "v", "i", "d", "e", "o">>

W_image == <<"i", "m", "a", "g", "e">>
W_video == <<"v", "i", "d", "e", "o">>
W_audio == <<"a", "u", "d", "i", "o">>
W_text == <<"t", "e", "x", "t">>
W_pdf == <<"p", "d", "f">>

(***************************************************************************)
(* Python string operations.                                               *)
(***************************************************************************)
\* sub in s
Contains(sub, s) ==
    \E i \in 0..(Len(s) - Len(sub)) : SubSeq(s, i + 1, i + Len(sub)) = sub

\* s.lstrip(".")
RECURSIVE LStripDot(_)
LStripDot(s) ==
    IF s # Empty /\ Head(s) = "." THEN LStripDot(Tail(s)) ELSE s

\* "." in s
HasDot(s) == \E i \in 1..Len(s) : s[i] = "."

\* s.split(".")[-1]
RECURSIVE LastPart(_)
LastPart(s) ==
    IF HasDot(s) THEN LastPart(Tail(s)) ELSE s

\* Python truthiness of an optional string: None and "" are false
Truthy(v) == v # NoValue /\ v # ""

\* mapping.get(key, default)
Get(v, default) == IF v = NoValue THEN default ELSE v

\* the element of a one-element set: { e(x) : x \in {v} } binds x to the value v
Only(S) == CHOOSE x \in S : TRUE

(***************************************************************************)
(* FileType, FileTransferMethod and the extension tables of constants.     *)
(***************************************************************************)
IMAGE == "image"
VIDEO == "video"
AUDIO == "audio"
DOCUMENT == "document"
CUSTOM == "custom"
FileType == {IMAGE, VIDEO, AUDIO, DOCUMENT, CUSTOM}

LOCAL_FILE == "local_file"
REMOTE_URL == "remote_url"
TOOL_FILE == "tool_file"
FileTransferMethod == {LOCAL_FILE, REMOTE_URL, TOOL_FILE}

\* representatives of the per-category extension lists imported from constants
IMAGE_EXTENSIONS == {S_png, S_jpg}
VIDEO_EXTENSIONS == {S_mp4}
AUDIO_EXTENSIONS == {S_mp3}
DOCUMENT_EXTENSIONS == {S_pdf, S_csv}

(***************************************************************************)
(* The type classifier.                                                    *)
(***************************************************************************)
\* a faulty variant: the video and document tables are not consulted
get_file_type_by_extension_m(extension) ==
    LET e == LStripDot(extension) IN
    IF e \in IMAGE_EXTENSIONS THEN IMAGE
    ELSE IF e \in AUDIO_EXTENSIONS THEN AUDIO
    ELSE NoValue

\* _get_file_type_by_extension: None is NoValue
get_file_type_by_extension(extension) ==
    LET e == LStripDot(extension) IN
    IF e \in IMAGE_EXTENSIONS THEN IMAGE
    ELSE IF e \in VIDEO_EXTENSIONS THEN VIDEO
    ELSE IF e \in AUDIO_EXTENSIONS THEN AUDIO
    ELSE IF e \in DOCUMENT_EXTENSIONS THEN DOCUMENT
    ELSE NoValue

\* _get_file_type_by_mimetype
get_file_type_by_mimetype(mime_type) ==
    IF Contains(W_image, mime_type) THEN IMAGE
    ELSE IF Contains(W_video, mime_type) THEN VIDEO
    ELSE IF Contains(W_audio, mime_type) THEN AUDIO
    ELSE IF Contains(W_text, mime_type) \/ Contains(W_pdf, mime_type) THEN DOCUMENT
    ELSE CUSTOM

\* _standardize_file_type
standardize_file_type(extension, mime_type) ==
    Only({ Only({ IF guessed = NoValue THEN CUSTOM ELSE guessed :
                  guessed \in { IF byExt = NoValue /\ mime_type # Empty
                                THEN get_file_type_by_mimetype(mime_type)
                                ELSE byExt } }) :
           byExt \in { IF extension # Empty
                       THEN get_file_type_by_extension(extension)
                       ELSE NoValue } })

(***************************************************************************)
(* The record store at construction time.                                  *)
(***************************************************************************)
Tenants == {"t1", "t2"}

InitUploadFiles ==
    { [id |-> "id-a", tenant_id |-> "t1", name |-> <<"a">>, extension |-> S_png,
       mime_type |-> M_image_png, size |-> 10, key |-> <<"k", "a">>],
      [id |-> "id-b", tenant_id |-> "t1", name |-> <<"b">>, extension |-> S_pdf,
       mime_type |-> M_app_pdf, size |-> 20, key |-> <<"k", "b">>],
      [id |-> "id-c", tenant_id |-> "t2", name |-> <<"c">>, extension |-> S_dat,
       mime_type |-> M_text_plain, size |-> 30, key |-> <<"k", "c">>],
      [id |-> "id-d", tenant_id |-> "t1", name |-> <<"d">>, extension |-> S_zip,
       mime_type |-> M_app_zip, size |-> 40, key |-> <<"k", "d">>] }

InitToolFiles ==
    { [id |-> "id-x", tenant_id |-> "t1", name |-> <<"x">>, mimetype |-> M_image_png,
       size |-> 50, file_key |-> <<"x", ".", "p", "n", "g">>],
      [id |-> "id-y", tenant_id |-> "t2", name |-> <<"y">>, mimetype |-> M_app_zip,
       size |-> 60, file_key |-> <<"y">>] }

Init ==
    /\ uploadFiles = InitUploadFiles
    /\ toolFiles = InitToolFiles
    /\ files = << >>
    /\ last = [op |-> "init"]

(***************************************************************************)
(* Outcomes.  A raised ValueError is named after the error of the design   *)
(* it stands for; lookups counts the record-store queries issued.          *)
(***************************************************************************)
Raise(err, lookups) == [err |-> err, file |-> << >>, lookups |-> lookups]
Return(file, lookups) == [err |-> "", file |-> <<file>>, lookups |-> lookups]

\* uuid.UUID(s) succeeds
ValidUUIDs == {"id-a", "id-b", "id-c", "id-d", "id-e", "id-x", "id-y"}
IsUUID(s) == s \in ValidUUIDs

\* a faulty variant: the tenant is left out of the WHERE clause
select_upload_file_m(upload_file_id, tenant_id) ==
    {r \in uploadFiles : r.id = upload_file_id}

\* select(UploadFile).where(id == upload_file_id, tenant_id == tenant_id)
select_upload_file(upload_file_id, tenant_id) ==
    {r \in uploadFiles : r.id = upload_file_id /\ r.tenant_id = tenant_id}

\* select(ToolFile).where(id == tool_file_id, tenant_id == tenant_id)
select_tool_file(tool_file_id, tenant_id) ==
    {r \in toolFiles : r.id = tool_file_id /\ r.tenant_id = tenant_id}

\* a faulty variant: a malformed id is passed on to the query
local_id_error_m(upload_file_id) ==
    IF ~Truthy(upload_file_id) THEN "InvalidReference" ELSE ""

\* the checks of upload_file_id that precede the query of _build_from_local_file
local_id_error(upload_file_id) ==
    IF ~Truthy(upload_file_id) THEN "InvalidReference"
    ELSE IF ~IsUUID(upload_file_id) THEN "InvalidReference"
    ELSE ""

\* FileType(specified_type) if specified_type and specified_type != CUSTOM
\* else detected_file_type
chosen_file_type(specified_type, detected_file_type) ==
    IF Truthy(specified_type) /\ specified_type # CUSTOM
    THEN specified_type
    ELSE detected_file_type

\* the File _build_from_local_file and _build_from_remote_url make of the row
\* found, once the declared type has passed
file_of_upload_row(row, mapping, tenant_id, transfer_method, file_type) ==
    [filename |-> row.name,
     extension |-> Dot \o row.extension,
     mime_type |-> row.mime_type,
     tenant_id |-> tenant_id,
     type |-> file_type,
     transfer_method |-> transfer_method,
     related_id |-> mapping.upload_file_id,
     size |-> row.size,
     storage_key |-> row.key]

\* _build_from_local_file
build_from_local_file(mapping, tenant_id, transfer_method, strict_type_validation) ==
    IF local_id_error(mapping.upload_file_id) # ""
    THEN Raise(local_id_error(mapping.upload_file_id), 0)
    ELSE IF select_upload_file(mapping.upload_file_id, tenant_id) = {}
    THEN Raise("RecordNotFound", 1)
    ELSE Only({
        Only({
            LET specified_type == Get(mapping.type, "custom") IN
            IF strict_type_validation /\ detected_file_type # specified_type
            THEN Raise("TypeMismatch", 1)
            ELSE Return(file_of_upload_row(row, mapping, tenant_id, transfer_method,
                            chosen_file_type(specified_type, detected_file_type)), 1) :
            detected_file_type \in
                {standardize_file_type(Dot \o row.extension, row.mime_type)} }) :
        row \in select_upload_file(mapping.upload_file_id, tenant_id) })

(***************************************************************************)
(* The remote-metadata probe.  A URL stands for the resource behind it:    *)
(* the basename of its path and the HEAD response.  disposition is the     *)
(* file name the Content-Disposition header yields (Empty: no header),     *)
(* length the Content-Length header (-1: no header).                       *)
(***************************************************************************)
RemoteResources ==
    { [url |-> "url-csv", basename |-> <<"y", ".", "c", "s", "v">>, head_ok |-> FALSE,
       disposition |-> Empty, length |-> 5],
      [url |-> "url-png", basename |-> <<"p", ".", "p", "n", "g">>, head_ok |-> TRUE,
       disposition |-> Empty, length |-> 7],
      [url |-> "url-zip", basename |-> <<"d", "l">>, head_ok |-> TRUE,
       disposition |-> <<"a", ".", "z", "i", "p">>, length |-> -1],
      [url |-> "url-raw", basename |-> <<"r", "a", "w">>, head_ok |-> TRUE,
       disposition |-> Empty, length |-> 9] }

Urls == {r.url : r \in RemoteResources}

\* mimetypes.guess_type(filename)[0], for the suffixes of the explored names
guess_type(filename) ==
    LET suffix == IF HasDot(filename) THEN LastPart(filename) ELSE Empty IN
    IF suffix = S_png THEN M_image_png
    ELSE IF suffix = S_csv THEN M_text_csv
    ELSE IF suffix = S_pdf THEN M_app_pdf
    ELSE IF suffix = S_zip THEN M_app_zip
    ELSE NoneStr

\* mimetypes.guess_extension(mime_type): Empty stands for None
guess_extension(mime_type) ==
    IF mime_type = M_image_png THEN Dot \o S_png
    ELSE IF mime_type = M_text_csv THEN Dot \o S_csv
    ELSE IF mime_type = M_app_pdf THEN Dot \o S_pdf
    ELSE IF mime_type = M_app_zip THEN Dot \o S_zip
    ELSE Empty

\* _get_remote_file_info
get_remote_file_info(url) ==
    LET res == CHOOSE r \in RemoteResources : r.url = url
        named == res.head_ok /\ res.disposition # Empty
        filename == IF named THEN res.disposition ELSE res.basename
    IN  [mime_type |-> guess_type(filename),
         filename |-> filename,
         file_size |-> IF res.head_ok THEN res.length ELSE -1]

\* file_type.value != mapping.get("type", "custom"), of the bare-URL branch
bare_type_mismatch(file_type, declared, strict_type_validation) ==
    file_type # Get(declared, "custom")

\* the bare-URL branch of _build_from_remote_url, given the probe's answer
build_from_probe(info, mapping, tenant_id, transfer_method, strict_type_validation) ==
    \* mimetypes.guess_extension(None) raises AttributeError
    IF info.mime_type = NoneStr THEN Raise("AttributeError", 0)
    ELSE Only({
        Only({
            IF bare_type_mismatch(file_type, mapping.type, strict_type_validation)
            THEN Raise("TypeMismatch", 0)
            ELSE Return([filename |-> info.filename,
                         extension |-> extension,
                         mime_type |-> info.mime_type,
                         tenant_id |-> tenant_id,
                         type |-> file_type,
                         transfer_method |-> transfer_method,
                         related_id |-> NoValue,
                         size |-> info.file_size,
                         storage_key |-> Empty], 0) :
            file_type \in {standardize_file_type(extension, info.mime_type)} }) :
        extension \in { IF guess_extension(info.mime_type) # Empty
                        THEN guess_extension(info.mime_type)
                        ELSE IF HasDot(info.filename)
                             THEN Dot \o LastPart(info.filename)
                             ELSE Dot \o S_bin } })

\* _build_from_remote_url
build_from_remote_url(mapping, tenant_id, transfer_method, strict_type_validation) ==
    IF Truthy(mapping.upload_file_id)
    THEN
        IF ~IsUUID(mapping.upload_file_id) THEN Raise("InvalidReference", 0)
        ELSE IF select_upload_file(mapping.upload_file_id, tenant_id) = {}
        THEN Raise("RecordNotFound", 1)
        ELSE Only({
            Only({
                LET specified_type == mapping.type IN
                IF /\ strict_type_validation
                   /\ Truthy(specified_type)
                   /\ detected_file_type # specified_type
                THEN Raise("TypeMismatch", 1)
                ELSE Return(file_of_upload_row(upload_file, mapping, tenant_id,
                                transfer_method,
                                chosen_file_type(specified_type, detected_file_type)), 1) :
                detected_file_type \in
                    {standardize_file_type(Dot \o upload_file.extension,
                                           upload_file.mime_type)} }) :
            upload_file \in select_upload_file(mapping.upload_file_id, tenant_id) })
    ELSE
        IF ~Truthy(mapping.url) THEN Raise("InvalidUrl", 0)
        ELSE Only({ build_from_probe(info, mapping, tenant_id, transfer_method,
                                     strict_type_validation) :
                    info \in {get_remote_file_info(mapping.url)} })

\* _build_from_tool_file
build_from_tool_file(mapping, tenant_id, transfer_method, strict_type_validation) ==
    IF select_tool_file(mapping.tool_file_id, tenant_id) = {}
    THEN Raise("RecordNotFound", 1)
    ELSE Only({
        Only({
            Only({
                LET specified_type == mapping.type IN
                IF /\ strict_type_validation
                   /\ Truthy(specified_type)
                   /\ detected_file_type # specified_type
                THEN Raise("TypeMismatch", 1)
                ELSE Return([filename |-> tool_file.name,
                             extension |-> extension,
                             mime_type |-> tool_file.mimetype,
                             tenant_id |-> tenant_id,
                             type |-> chosen_file_type(specified_type, detected_file_type),
                             transfer_method |-> transfer_method,
                             related_id |-> tool_file.id,
                             size |-> tool_file.size,
                             storage_key |-> tool_file.file_key], 1) :
                detected_file_type \in
                    {standardize_file_type(extension, tool_file.mimetype)} }) :
            extension \in { IF HasDot(tool_file.file_key)
                            THEN Dot \o LastPart(tool_file.file_key)
                            ELSE Dot \o S_bin } }) :
        tool_file \in select_tool_file(mapping.tool_file_id, tenant_id) })

(***************************************************************************)
(* The upload policy.  A FileUploadConfig is a record; NoConfig is None.   *)
(* An empty set is an empty (or absent) list, which Python takes as false. *)
(***************************************************************************)
NoConfig == [present |-> FALSE]
NoImageConfig == [present |-> FALSE]
NoExtensionList == [is_none |-> TRUE, items |-> {}]

Config(types, extensions, methods, image_config, number_limits) ==
    [present |-> TRUE,
     allowed_file_types |-> types,
     allowed_file_extensions |-> extensions,
     allowed_file_upload_methods |-> methods,
     image_config |-> image_config,
     number_limits |-> number_limits]

\* _is_file_valid_with_config
is_file_valid_with_config(input_file_type, file_extension, file_transfer_method, config) ==
    IF /\ config.allowed_file_types # {}
       /\ input_file_type \notin config.allowed_file_types
       /\ input_file_type # CUSTOM
    THEN FALSE
    ELSE IF /\ input_file_type = CUSTOM
            /\ ~config.allowed_file_extensions.is_none
            /\ file_extension \notin config.allowed_file_extensions.items
    THEN FALSE
    ELSE IF input_file_type = IMAGE
    THEN ~ (/\ config.image_config.present
            /\ config.image_config.transfer_methods # {}
            /\ file_transfer_method \notin config.image_config.transfer_methods)
    ELSE ~ (/\ config.allowed_file_upload_methods # {}
            /\ file_transfer_method \notin config.allowed_file_upload_methods)

\* the dispatch of build_from_mapping on the transfer method
build_by_method(mapping, tenant_id, strict_type_validation) ==
    IF mapping.transfer_method = LOCAL_FILE
    THEN build_from_local_file(mapping, tenant_id, mapping.transfer_method,
                               strict_type_validation)
    ELSE IF mapping.transfer_method = REMOTE_URL
    THEN build_from_remote_url(mapping, tenant_id, mapping.transfer_method,
                               strict_type_validation)
    ELSE build_from_tool_file(mapping, tenant_id, mapping.transfer_method,
                              strict_type_validation)

\* build_from_mapping
build_from_mapping(mapping, tenant_id, config, strict_type_validation) ==
    IF mapping.transfer_method \notin FileTransferMethod
    THEN Raise("UnsupportedMethod", 0)
    ELSE Only({
        IF built.err # "" THEN built
        ELSE IF /\ config.present
                /\ ~is_file_valid_with_config(Get(mapping.type, CUSTOM),
                                              built.file[1].extension,
                                              built.file[1].transfer_method,
                                              config)
        THEN Raise("PolicyViolation", built.lookups)
        ELSE built :
        built \in {build_by_method(mapping, tenant_id, strict_type_validation)} })

\* the list comprehension of build_from_mappings: the Files built, the first
\* error and the queries issued
RECURSIVE build_each(_, _, _, _)
build_each(mappings, tenant_id, config, strict_type_validation) ==
    IF mappings = << >> THEN [err |-> "", files |-> << >>, lookups |-> 0]
    ELSE Only({
        IF one.err # "" THEN [err |-> one.err, files |-> << >>, lookups |-> one.lookups]
        ELSE Only({
            [err |-> rest.err,
             files |-> IF rest.err = "" THEN one.file \o rest.files ELSE << >>,
             lookups |-> one.lookups + rest.lookups] :
            rest \in {build_each(Tail(mappings), tenant_id, config,
                                 strict_type_validation)} }) :
        one \in {build_from_mapping(Head(mappings), tenant_id, config,
                                    strict_type_validation)} })

\* sum(1 for _ in filter(lambda x: x.type == FileType.IMAGE, files))
image_count(fs) == Cardinality({i \in 1..Len(fs) : fs[i].type = IMAGE})

\* a faulty variant: the limits are compared with >=
collection_error_m(fs, config) ==
    IF /\ config.present
       /\ config.image_config.present
       /\ image_count(fs) >= config.image_config.number_limits
    THEN "TooManyImages"
    ELSE IF /\ config.present
            /\ config.number_limits # 0
            /\ Len(fs) >= config.number_limits
    THEN "TooManyFiles"
    ELSE ""

\* the two collection checks of build_from_mappings
collection_error(fs, config) ==
    IF /\ config.present
       /\ config.image_config.present
       /\ image_count(fs) > config.image_config.number_limits
    THEN "TooManyImages"
    ELSE IF /\ config.present
            /\ config.number_limits # 0
            /\ Len(fs) > config.number_limits
    THEN "TooManyFiles"
    ELSE ""

\* build_from_mappings
build_from_mappings(mappings, config, tenant_id, strict_type_validation) ==
    Only({
        IF each.err # "" THEN each
        ELSE Only({
            IF error # ""
            THEN [err |-> error, files |-> << >>, lookups |-> each.lookups]
            ELSE each :
            error \in {collection_error(each.files, config)} }) :
        each \in {build_each(mappings, tenant_id, config, strict_type_validation)} })

(***************************************************************************)
(* StorageKeyLoader.  A lookup result, a dict keyed by id, is the set of   *)
(* the rows found.                                                         *)
(***************************************************************************)
\* a faulty variant: the tenant is left out of the WHERE clause
load_upload_files_m(tenant_id, upload_file_ids) ==
    {r \in uploadFiles : r.id \in upload_file_ids}

\* StorageKeyLoader._load_upload_files
load_upload_files(tenant_id, upload_file_ids) ==
    {r \in uploadFiles : r.id \in upload_file_ids /\ r.tenant_id = tenant_id}

\* StorageKeyLoader._load_tool_files
load_tool_files(tenant_id, tool_file_ids) ==
    {r \in toolFiles : r.id \in tool_file_ids /\ r.tenant_id = tenant_id}

\* the first loop of load_storage_keys: the error it raises, "" when it completes
RECURSIVE partition_error(_, _)
partition_error(tenant_id, fs) ==
    IF fs = << >> THEN ""
    ELSE LET file == Head(fs) IN
         IF file.related_id = NoValue THEN "MissingReference"
         ELSE IF file.tenant_id # tenant_id THEN "TenantMismatch"
         ELSE IF ~IsUUID(file.related_id) THEN "InvalidReference"
         ELSE partition_error(tenant_id, Tail(fs))

\* the second loop of load_storage_keys: the files as it leaves them, and the
\* error it raises
RECURSIVE assign_keys(_, _, _)
assign_keys(fs, upload_files, tool_files) ==
    IF fs = << >> THEN [err |-> "", files |-> << >>]
    ELSE Only({
        IF keys = {} THEN [err |-> "RecordNotFound", files |-> fs]
        ELSE Only({
            [err |-> rest.err,
             files |-> <<[Head(fs) EXCEPT !.storage_key = CHOOSE k \in keys : TRUE]>>
                       \o rest.files] :
            rest \in {assign_keys(Tail(fs), upload_files, tool_files)} }) :
        keys \in { IF Head(fs).transfer_method \in {LOCAL_FILE, REMOTE_URL}
                   THEN {r.key : r \in {u \in upload_files :
                                          u.id = Head(fs).related_id}}
                   ELSE {r.file_key : r \in {u \in tool_files :
                                               u.id = Head(fs).related_id}} } })

\* a faulty variant: the second loop fetches the row of each File, one query per file
lookups_issued_m(fs, partitioned) ==
    IF partitioned THEN Len(fs) ELSE 0

\* the queries load_storage_keys issues: none when the first loop raises, else
\* one for the tool-file ids and one for the upload-file ids
lookups_issued(fs, partitioned) ==
    IF partitioned THEN 2 ELSE 0

\* the ids the first loop of load_storage_keys collects for the methods given
partition_ids(fs, methods) ==
    {fs[i].related_id : i \in {j \in 1..Len(fs) : fs[j].transfer_method \in methods}}

\* StorageKeyLoader.load_storage_keys
load_storage_keys(tenant_id, fs) ==
    Only({
        IF err # "" THEN [err |-> err, files |-> fs, lookups |-> lookups_issued(fs, FALSE)]
        ELSE Only({
            [err |-> assigned.err, files |-> assigned.files,
             lookups |-> lookups_issued(fs, TRUE)] :
            assigned \in
                {assign_keys(fs,
                    load_upload_files(tenant_id,
                        partition_ids(fs, {LOCAL_FILE, REMOTE_URL})),
                    load_tool_files(tenant_id, partition_ids(fs, {TOOL_FILE})))} }) :
        err \in {partition_error(tenant_id, fs)} })

(***************************************************************************)
(* The calls.  files is the list of Files the caller holds, last the most  *)
(* recent call with its arguments and outcome.                             *)
(***************************************************************************)
Mapping(transfer_method, type, upload_file_id, tool_file_id, url) ==
    [transfer_method |-> transfer_method, type |-> type,
     upload_file_id |-> upload_file_id, tool_file_id |-> tool_file_id, url |-> url]

\* the first call of a caller: the File built is the list it holds
BuildOne(mapping, tenant_id, config, strict) ==
    /\ last.op = "init"
    /\ \E r \in {build_from_mapping(mapping, tenant_id, config, strict)} :
       /\ files' = r.file
       /\ last' = [op |-> "build_one", mapping |-> mapping, tenant_id |-> tenant_id,
                   config |-> config, strict |-> strict,
                   err |-> r.err, lookups |-> r.lookups]
    /\ UNCHANGED <<uploadFiles, toolFiles>>

\* a later call: the File built is appended to the list the caller holds
BuildAnother(mapping, tenant_id, config, strict) ==
    /\ last.op # "init"
    /\ Len(files) < MaxResolve
    /\ \E r \in {build_from_mapping(mapping, tenant_id, config, strict)} :
       /\ files' = files \o r.file
       /\ last' = [op |-> "build_one", mapping |-> mapping, tenant_id |-> tenant_id,
                   config |-> config, strict |-> strict,
                   err |-> r.err, lookups |-> r.lookups]
    /\ UNCHANGED <<uploadFiles, toolFiles>>

BuildMany(mappings, tenant_id, config, strict) ==
    /\ last.op = "init"
    /\ \E r \in {build_from_mappings(mappings, config, tenant_id, strict)} :
       /\ files' = r.files
       /\ last' = [op |-> "build_many", mappings |-> mappings, tenant_id |-> tenant_id,
                   config |-> config, strict |-> strict,
                   err |-> r.err, lookups |-> r.lookups]
    /\ UNCHANGED <<uploadFiles, toolFiles>>

\* StorageKeyLoader(session, tenant_id).load_storage_keys(files)
Resolve(tenant_id) ==
    /\ last.op # "init"
    /\ \E r \in {load_storage_keys(tenant_id, files)} :
       /\ files' = r.files
       /\ last' = [op |-> "resolve", tenant_id |-> tenant_id,
                   err |-> r.err, lookups |-> r.lookups]
    /\ UNCHANGED <<uploadFiles, toolFiles>>

(***************************************************************************)
(* The record store changes under other writers between the calls.         *)
(***************************************************************************)
NewKey == <<"k", "2">>

DeleteUploadFile(id) ==
    /\ \E r \in uploadFiles : r.id = id
    /\ uploadFiles' = {r \in uploadFiles : r.id # id}
    /\ last' = [op |-> "store"]
    /\ UNCHANGED <<toolFiles, files>>

DeleteToolFile(id) ==
    /\ \E r \in toolFiles : r.id = id
    /\ toolFiles' = {r \in toolFiles : r.id # id}
    /\ last' = [op |-> "store"]
    /\ UNCHANGED <<uploadFiles, files>>

RewriteUploadKey(id) ==
    /\ \E r \in uploadFiles : r.id = id /\ r.key # NewKey
    /\ uploadFiles' = {IF r.id = id THEN [r EXCEPT !.key = NewKey] ELSE r :
                       r \in uploadFiles}
    /\ last' = [op |-> "store"]
    /\ UNCHANGED <<toolFiles, files>>

\* the row is handed to another tenant
ReassignUploadFile(id, tenant_id) ==
    /\ \E r \in uploadFiles : r.id = id /\ r.tenant_id # tenant_id
    /\ uploadFiles' = {IF r.id = id THEN [r EXCEPT !.tenant_id = tenant_id] ELSE r :
                       r \in uploadFiles}
    /\ last' = [op |-> "store"]
    /\ UNCHANGED <<toolFiles, files>>

(***************************************************************************)
(* The explored arguments.                                                 *)
(***************************************************************************)
DeclaredTypes == {NoValue} \cup FileType

LocalMappings ==
    { Mapping(LOCAL_FILE, ty, id, NoValue, NoValue) :
        ty \in DeclaredTypes,
        id \in {NoValue, "", "not-a-uuid", "id-a", "id-b", "id-c", "id-d", "id-e"} }

StoredRemoteMappings ==
    { Mapping(REMOTE_URL, ty, id, NoValue, NoValue) :
        ty \in DeclaredTypes,
        id \in {"not-a-uuid", "id-a", "id-b", "id-c", "id-d", "id-e"} }

BareRemoteMappings ==
    { Mapping(REMOTE_URL, ty, NoValue, NoValue, url) :
        ty \in DeclaredTypes, url \in {NoValue} \cup Urls }

ToolMappings ==
    { Mapping(TOOL_FILE, ty, NoValue, id, NoValue) :
        ty \in DeclaredTypes, id \in {NoValue, "id-x", "id-y", "id-e"} }

OneMappings ==
    LocalMappings \cup StoredRemoteMappings \cup BareRemoteMappings \cup ToolMappings
        \cup {Mapping("bogus", NoValue, "id-a", NoValue, NoValue)}

ImagesOnly == Config({IMAGE}, NoExtensionList, {}, NoImageConfig, 0)
ImagesNoExtensions ==
    Config({IMAGE}, [is_none |-> FALSE, items |-> {}], {}, NoImageConfig, 0)
DocumentsLocal ==
    Config({DOCUMENT, IMAGE}, [is_none |-> FALSE, items |-> {Dot \o S_zip}], {LOCAL_FILE},
           [present |-> TRUE, number_limits |-> 1, transfer_methods |-> {REMOTE_URL}], 0)

OneConfigs == {NoConfig, ImagesOnly, ImagesNoExtensions, DocumentsLocal}

BatchMappings ==
    { Mapping(LOCAL_FILE, NoValue, "id-a", NoValue, NoValue),
      Mapping(LOCAL_FILE, DOCUMENT, "id-b", NoValue, NoValue),
      Mapping(LOCAL_FILE, IMAGE, "id-b", NoValue, NoValue),
      Mapping(TOOL_FILE, IMAGE, NoValue, "id-x", NoValue),
      Mapping(LOCAL_FILE, NoValue, "not-a-uuid", NoValue, NoValue),
      Mapping(LOCAL_FILE, NoValue, "id-c", NoValue, NoValue) }

RECURSIVE SeqsUpTo(_, _)
SeqsUpTo(S, n) ==
    IF n = 0 THEN {<< >>}
    ELSE LET shorter == SeqsUpTo(S, n - 1) IN
         shorter \cup {Append(s, x) : s \in shorter, x \in S}

\* -1 stands for no image_config
LimitConfig(image_limit, number_limits) ==
    Config({}, NoExtensionList, {},
           IF image_limit < 0 THEN NoImageConfig
           ELSE [present |-> TRUE, number_limits |-> image_limit,
                 transfer_methods |-> {}],
           number_limits)

BatchConfigs ==
    {NoConfig, ImagesOnly}
        \cup {LimitConfig(il, nl) : il \in -1..MaxLimit, nl \in 0..MaxLimit}

NextBuild ==
    /\ last.op = "init"
    /\ \/ \E m \in OneMappings, t \in Tenants, c \in OneConfigs, s \in BOOLEAN :
             BuildOne(m, t, c, s)
       \/ \E ms \in SeqsUpTo(BatchMappings, MaxBatch), t \in Tenants,
             c \in BatchConfigs, s \in BOOLEAN :
             BuildMany(ms, t, c, s)

SpecBuild == Init /\ [][NextBuild]_vars

ResolveMappings ==
    { Mapping(LOCAL_FILE, NoValue, "id-a", NoValue, NoValue),
      Mapping(REMOTE_URL, NoValue, "id-a", NoValue, NoValue),
      Mapping(TOOL_FILE, NoValue, NoValue, "id-x", NoValue) }
        \cup { Mapping(REMOTE_URL, ty, NoValue, NoValue, url) :
                 ty \in {NoValue, IMAGE}, url \in {"url-zip", "url-png"} }
        \cup { Mapping(REMOTE_URL, IMAGE, NoValue, NoValue, "url-raw") }

NextResolve ==
    \/ \E m \in ResolveMappings, t \in Tenants, s \in BOOLEAN :
          BuildOne(m, t, NoConfig, s)
    \/ \E m \in ResolveMappings, t \in Tenants, s \in BOOLEAN :
          BuildAnother(m, t, NoConfig, s)
    \/ \E t \in Tenants : Resolve(t)
    \/ DeleteUploadFile("id-a")
    \/ DeleteToolFile("id-x")
    \/ RewriteUploadKey("id-a")
    \/ \E t \in Tenants : ReassignUploadFile("id-a", t)

SpecResolve == Init /\ [][NextResolve]_vars

(***************************************************************************)
(* Classification of explored (extension, mime-type) pairs.                *)
(***************************************************************************)
ClassifyExtensions ==
    { Empty, Dot, S_png, Dot \o S_png, Dot \o Dot \o S_png, Dot \o S_jpg,
      Dot \o S_mp4, Dot \o S_mp3, Dot \o S_pdf, Dot \o S_csv, Dot \o S_bin,
      Dot \o S_zip, S_png \o Dot }

ClassifyMimeTypes ==
    { Empty, M_image_png, M_video_mp4, M_audio_mpeg, M_text_plain, M_app_pdf,
      M_app_zip, M_text_x_image, M_audio_x_video }

Classify(extension, mime_type) ==
    /\ last' = [op |-> "classify", extension |-> extension, mime_type |-> mime_type,
                result |-> standardize_file_type(extension, mime_type)]
    /\ UNCHANGED <<uploadFiles, toolFiles, files>>

NextClassify ==
    \E e \in ClassifyExtensions, m \in ClassifyMimeTypes : Classify(e, m)

SpecClassify == Init /\ [][NextClassify]_vars

(***************************************************************************)
(* Claims.                                                                 *)
(***************************************************************************)
\* the rows a File's related id names in the scope of tenant_id
RowsNamed(file, tenant_id) ==
    IF file.transfer_method = TOOL_FILE
    THEN {r \in toolFiles : r.id = file.related_id /\ r.tenant_id = tenant_id}
    ELSE {r \in uploadFiles : r.id = file.related_id /\ r.tenant_id = tenant_id}

\* the stored key of a row of either table
KeyOf(file, row) ==
    IF file.transfer_method = TOOL_FILE THEN row.file_key ELSE row.key

\* the File's related id names a row that exists only under another tenant
NamesForeignRow(file, tenant_id) ==
    /\ file.related_id # NoValue
    /\ RowsNamed(file, tenant_id) = {}
    /\ \E t \in Tenants \ {tenant_id} : RowsNamed(file, t) # {}

\* the last call is a build through a record of the store
RecordBackedBuild ==
    /\ last.op = "build_one"
    /\ \/ last.mapping.transfer_method \in {LOCAL_FILE, TOOL_FILE}
       \/ /\ last.mapping.transfer_method = REMOTE_URL
          /\ Truthy(last.mapping.upload_file_id)

\* the classified categories of the rows the last build's mapping names
ClassifiedOfLast ==
    IF last.mapping.transfer_method = TOOL_FILE
    THEN { standardize_file_type(
               IF HasDot(r.file_key) THEN Dot \o LastPart(r.file_key) ELSE Dot \o S_bin,
               r.mimetype) :
           r \in {u \in toolFiles : u.id = last.mapping.tool_file_id
                                    /\ u.tenant_id = last.tenant_id} }
    ELSE { standardize_file_type(Dot \o r.extension, r.mime_type) :
           r \in {u \in uploadFiles : u.id = last.mapping.upload_file_id
                                      /\ u.tenant_id = last.tenant_id} }

\* C1: with an allowed-category list configured, buildOne rejects with
\* PolicyViolation every file whose category, as the builder set it on the File,
\* is neither CUSTOM nor in the list, whatever category the descriptor declares;
\* and with nothing but that list configured it accepts a file whose built
\* category is in the list.
C1_PolicyJudgesBuiltCategory ==
    (/\ last.op = "build_one"
     /\ last.config.present
     /\ last.config.allowed_file_types # {})
    => \A built \in {build_from_mapping(last.mapping, last.tenant_id, NoConfig,
                                        last.strict)} :
         built.err = "" =>
           /\ (/\ built.file[1].type # CUSTOM
               /\ built.file[1].type \notin last.config.allowed_file_types)
              => last.err = "PolicyViolation"
           /\ (/\ last.config = ImagesOnly
               /\ built.file[1].type \in last.config.allowed_file_types)
              => last.err = ""

\* C2: a record-backed build (LOCAL, stored REMOTE_URL, TOOL_PRODUCED) fails with
\* TypeMismatch exactly when strict validation is on and the descriptor declares
\* a category that differs from the classified one; otherwise the File's category
\* is the declared one, or the classified one when CUSTOM or nothing is declared.
C2_StrictMismatchSameForAllMethods ==
    RecordBackedBuild =>
      \A classified \in ClassifiedOfLast :
        /\ (last.err = "TypeMismatch")
             <=> (/\ last.strict
                  /\ last.mapping.type # NoValue
                  /\ last.mapping.type # classified)
        /\ last.err = ""
             => files[Len(files)].type =
                  IF last.mapping.type \in {NoValue, CUSTOM}
                  THEN classified
                  ELSE last.mapping.type

\* C3: classify is total and the extension comes first: an extension that, with
\* its leading separators stripped, is in a category's table gives that category
\* whatever the mime type; an empty extension or one in no table gives the
\* category of the first keyword found in the mime type (image, video, audio,
\* then text or pdf), and CUSTOM when there is none.
C3_ExtensionBeforeMimeType ==
    last.op = "classify" =>
      LET e == LStripDot(last.extension)
          m == last.mime_type
      IN  /\ last.result \in FileType
          /\ (e \in IMAGE_EXTENSIONS) => (last.result = IMAGE)
          /\ (e \in VIDEO_EXTENSIONS) => (last.result = VIDEO)
          /\ (e \in AUDIO_EXTENSIONS) => (last.result = AUDIO)
          /\ (e \in DOCUMENT_EXTENSIONS) => (last.result = DOCUMENT)
          /\ (e \notin IMAGE_EXTENSIONS \cup VIDEO_EXTENSIONS
                         \cup AUDIO_EXTENSIONS \cup DOCUMENT_EXTENSIONS)
             => last.result =
                  IF Contains(W_image, m) THEN IMAGE
                  ELSE IF Contains(W_video, m) THEN VIDEO
                  ELSE IF Contains(W_audio, m) THEN AUDIO
                  ELSE IF Contains(W_text, m) \/ Contains(W_pdf, m) THEN DOCUMENT
                  ELSE CUSTOM
          /\ (last.extension = Empty /\ m = Empty) => (last.result = CUSTOM)

\* an image extension beats a video mime type
C3_Witness ==
    /\ last.op = "classify"
    /\ last.extension = Dot \o S_png
    /\ last.mime_type = M_video_mp4
    /\ last.result = IMAGE

\* C4: buildMany raises the error of the first descriptor whose own build fails;
\* when every build succeeds it fails with TooManyImages if an image_config is
\* set and the IMAGE files outnumber its limit, otherwise with TooManyFiles if a
\* non-zero number_limits is set and the files outnumber it, and otherwise
\* returns the Files in descriptor order.
C4_PerFileErrorsBeforeCollectionChecks ==
    last.op = "build_many" =>
      LET n == Len(last.mappings)
          single(i) == build_from_mapping(last.mappings[i], last.tenant_id,
                                          last.config, last.strict)
          failing == {i \in 1..n : single(i).err # ""}
          images == Cardinality({i \in 1..n : single(i).file[1].type = IMAGE})
      IN  IF failing # {}
          THEN /\ last.err = single(CHOOSE i \in failing :
                                      \A j \in failing : i <= j).err
               /\ files = << >>
          ELSE IF /\ last.config.present
                  /\ last.config.image_config.present
                  /\ images > last.config.image_config.number_limits
          THEN last.err = "TooManyImages" /\ files = << >>
          ELSE IF /\ last.config.present
                  /\ last.config.number_limits # 0
                  /\ n > last.config.number_limits
          THEN last.err = "TooManyFiles" /\ files = << >>
          ELSE /\ last.err = ""
               /\ files = [i \in 1..n |-> single(i).file[1]]

\* three IMAGE files against an image limit of two
C4_Witness ==
    /\ last.op = "build_many"
    /\ Len(last.mappings) = 3
    /\ last.config.present
    /\ last.config.image_config.present
    /\ last.config.image_config.number_limits = 2
    /\ last.err = "TooManyImages"

\* C6: a LOCAL build whose related id is absent, empty or no valid identifier
\* fails with InvalidReference without a query; with a valid id that names no
\* upload record of the caller's tenant it fails with RecordNotFound; neither
\* produces a File.
C6_LocalReferenceErrors ==
    (last.op = "build_one" /\ last.mapping.transfer_method = LOCAL_FILE) =>
      LET id == last.mapping.upload_file_id IN
      /\ (id \in {NoValue, ""} \/ ~IsUUID(id))
         => (last.err = "InvalidReference" /\ last.lookups = 0 /\ files = << >>)
      /\ (/\ IsUUID(id)
          /\ ~ \E r \in uploadFiles : r.id = id /\ r.tenant_id = last.tenant_id)
         => (last.err = "RecordNotFound" /\ files = << >>)

\* a malformed id is refused before the store is queried
C6_Witness ==
    /\ last.op = "build_one"
    /\ last.mapping.transfer_method = LOCAL_FILE
    /\ last.mapping.upload_file_id = "not-a-uuid"
    /\ last.err = "InvalidReference"
    /\ last.lookups = 0

\* what C5 says of a build: the File carries the caller's tenant and the data of
\* a row of that tenant, and an id that names only another tenant's row is not
\* found
C5_BuildIsScoped ==
    RecordBackedBuild =>
      /\ last.err = "" =>
           LET file == files[Len(files)] IN
           /\ file.tenant_id = last.tenant_id
           /\ \E r \in RowsNamed(file, last.tenant_id) :
                /\ file.filename = r.name
                /\ file.size = r.size
                /\ file.storage_key = KeyOf(file, r)
      /\ (IF last.mapping.transfer_method = TOOL_FILE
          THEN \E r \in toolFiles : r.id = last.mapping.tool_file_id
                                    /\ r.tenant_id # last.tenant_id
          ELSE \E r \in uploadFiles : r.id = last.mapping.upload_file_id
                                      /\ r.tenant_id # last.tenant_id)
         => last.err = "RecordNotFound"

\* a storage key written by a step comes from a row of the File's own tenant
C5_KeysStayInTenant ==
    \A i \in 1..Len(files') :
      (i <= Len(files) /\ files'[i].storage_key # files[i].storage_key)
      => \E r \in RowsNamed(files[i], files[i].tenant_id) :
           files'[i].storage_key = KeyOf(files[i], r)

\* C5 as stated: Files carry the tenant of the call that built them and data of
\* that tenant's rows only, and a build or a resolve whose related id names a row
\* that exists only under another tenant fails with RecordNotFound.
C5_ForeignRowIsNotFound ==
    /\ C5_BuildIsScoped
    /\ (/\ last.op = "resolve"
        /\ \E i \in 1..Len(files) : NamesForeignRow(files[i], last.tenant_id))
       => last.err = "RecordNotFound"

\* C5 as amended: a resolve over a File whose related id names a row of another
\* tenant only fails: with RecordNotFound when every File of the list carries the
\* resolver's tenant and a related id, and otherwise with the MissingReference or
\* TenantMismatch of the first File that partitioning refuses.
C5_ForeignRowIsRefused ==
    /\ [](/\ C5_BuildIsScoped
          /\ (/\ last.op = "resolve"
              /\ \E i \in 1..Len(files) : NamesForeignRow(files[i], last.tenant_id))
             => /\ last.err \in {"RecordNotFound", "TenantMismatch", "MissingReference"}
                /\ (last.err = "RecordNotFound")
                     <=> \A i \in 1..Len(files) :
                           /\ files[i].related_id # NoValue
                           /\ files[i].tenant_id = last.tenant_id)
    /\ [][C5_KeysStayInTenant]_vars

\* a File of tenant t1 whose row was handed to t2 is resolved in the scope of t1
C5_Witness ==
    /\ last.op = "resolve"
    /\ last.err = "RecordNotFound"
    /\ \E i \in 1..Len(files) :
         /\ files[i].tenant_id = last.tenant_id
         /\ NamesForeignRow(files[i], last.tenant_id)

\* every File passes the checks of the first loop of the last resolve
Partitioned ==
    \A i \in 1..Len(files) :
      /\ files[i].related_id # NoValue
      /\ files[i].tenant_id = last.tenant_id

\* C7: after a successful resolve every File's storage key is the stored key of
\* the row its related id names in the resolver's tenant, in the upload table for
\* LOCAL and REMOTE_URL and in the tool table for TOOL_PRODUCED; a resolve that
\* gets past partitioning and finds no such row for a File fails with
\* RecordNotFound.
C7_KeysComeFromScopedRows ==
    last.op = "resolve" =>
      /\ last.err = ""
         => \A i \in 1..Len(files) :
              \E r \in RowsNamed(files[i], last.tenant_id) :
                files[i].storage_key = KeyOf(files[i], r)
      /\ (/\ Partitioned
          /\ \E i \in 1..Len(files) : RowsNamed(files[i], last.tenant_id) = {})
         => last.err = "RecordNotFound"

\* the upload record of a built File was deleted before the resolve
C7_Witness ==
    /\ last.op = "resolve"
    /\ last.err = "RecordNotFound"
    /\ \E i \in 1..Len(files) :
         /\ files[i].transfer_method \in {LOCAL_FILE, REMOTE_URL}
         /\ files[i].storage_key # Empty
         /\ ~ \E r \in uploadFiles : r.id = files[i].related_id

\* C8: a resolve that fails has changed the storage key of no File of its input.
C8_FailedResolveChangesNothing ==
    [][(last'.op = "resolve" /\ last'.err # "") => files' = files]_vars

\* C9: a resolve that fails with TenantMismatch or MissingReference has issued no
\* query, every other resolve exactly two, whatever the length of the list; and a
\* File without a related id or of another tenant is refused with one of these
\* two errors.
C9_QueryCountIsConstant ==
    last.op = "resolve" =>
      /\ (last.err \in {"TenantMismatch", "MissingReference"}) => (last.lookups = 0)
      /\ (last.err \notin {"TenantMismatch", "MissingReference"}) => (last.lookups = 2)
      /\ (~Partitioned) => (last.err \in {"TenantMismatch", "MissingReference"})

\* a single File is resolved with two queries
C9_Witness ==
    /\ last.op = "resolve"
    /\ Len(files) = 1
    /\ last.err = ""
    /\ last.lookups = 2

\* the last call is a build from a bare URL
BareBuild ==
    /\ last.op = "build_one"
    /\ last.mapping.transfer_method = REMOTE_URL
    /\ ~Truthy(last.mapping.upload_file_id)
    /\ last.mapping.url \in Urls

\* the category of the resource behind each probed URL: IMAGE and DOCUMENT by the
\* extension of the mime type, CUSTOM for the archive and for the resource
\* without a mime type or a suffix, whose extension is the generic binary one
CategoryBehind(url) ==
    IF url = "url-png" THEN IMAGE
    ELSE IF url = "url-csv" THEN DOCUMENT
    ELSE CUSTOM

\* what C10 says of the build
C10_BareBuild ==
    BareBuild =>
      /\ (Get(last.mapping.type, CUSTOM) # CategoryBehind(last.mapping.url))
         => last.err = "TypeMismatch"
      /\ last.err = ""
         => /\ files[Len(files)].type = CategoryBehind(last.mapping.url)
            /\ files[Len(files)].storage_key = Empty
            /\ files[Len(files)].related_id = NoValue

\* C10 as stated: a bare REMOTE_URL build fails with TypeMismatch whenever the
\* declared category (CUSTOM when omitted) differs from the classified one, strict
\* or not; the File it returns has an empty storage key and no related id, and a
\* resolve over a list that holds it fails with MissingReference.
C10_BareFileMissesReference ==
    /\ C10_BareBuild
    /\ (/\ last.op = "resolve"
        /\ \E i \in 1..Len(files) : files[i].related_id = NoValue)
       => last.err = "MissingReference"

====
